---- MODULE Spec2Model ----
\* lg36: a logger that prints to stdout and hands records through a queue to
\* one background thread (the data sink service, DSS) that inserts them into
\* an sqlite3 table.  Model of src/lg36p/lg36.py and src/lg36p/sample_app.py.
EXTENDS Integers, Sequences, FiniteSets, TLC

\* ------------------------------------------------------------------ bounds
NThreads == 2          \* application (producer) threads
MaxCalls == 3          \* calls of the exported functions, all threads together
MaxQRaises == 1        \* exceptions raised by the queue operations (SpecQFault)
MaxOldRows == 2        \* rows an earlier run of the process left in the store (SpecRun)

\* ------------------------------------------------------------------ values
Threads == 1..NThreads

\* class LGLVL(enum.Enum): the members, .value and __str__
LGLVL == {"LGLVL.DBUG", "LGLVL.INFO", "LGLVL.WARN", "LGLVL.ERRR", "LGLVL.CRIT"}

value(lvl) ==
    CASE lvl = "LGLVL.DBUG" -> 10
      [] lvl = "LGLVL.INFO" -> 20
      [] lvl = "LGLVL.WARN" -> 30
      [] lvl = "LGLVL.ERRR" -> 40
      [] lvl = "LGLVL.CRIT" -> 50

LGLVL__str__(lvl) ==
    CASE lvl = "LGLVL.DBUG" -> "DBUG"
      [] lvl = "LGLVL.INFO" -> "INFO"
      [] lvl = "LGLVL.WARN" -> "WARN"
      [] lvl = "LGLVL.ERRR" -> "ERRR"
      [] lvl = "LGLVL.CRIT" -> "CRIT"

\* Python's None where a level is expected (the thresholds before init)
None == "None"

\* an optional message: Python None or a str
PyNone == [none |-> TRUE, s |-> ""]
PyStr(s) == [none |-> FALSE, s |-> s]

\* what an f-string makes of a message
fstr(m) == IF m.none THEN "None" ELSE m.s

\* a _string_2_lglvl that falls back to DBUG without a word
_string_2_lglvl_Silent(lvl_str) ==
    IF lvl_str \in {"DBUG", "dbug", "DBG", "dbg", "DEBUG", "debug"}
      THEN [lvl |-> "LGLVL.DBUG", diag |-> FALSE]
    ELSE IF lvl_str \in {"INFO", "info"}
      THEN [lvl |-> "LGLVL.INFO", diag |-> FALSE]
    ELSE IF lvl_str \in {"WARN", "warn", "WARNING", "warning"}
      THEN [lvl |-> "LGLVL.WARN", diag |-> FALSE]
    ELSE IF lvl_str \in {"ERRR", "err", "ERROR", "error"}
      THEN [lvl |-> "LGLVL.ERRR", diag |-> FALSE]
    ELSE IF lvl_str \in {"CRIT", "crit"}
      THEN [lvl |-> "LGLVL.CRIT", diag |-> FALSE]
    ELSE [lvl |-> "LGLVL.DBUG", diag |-> FALSE]

\* _string_2_lglvl: the level, and whether the diagnostic line is printed
_string_2_lglvl(lvl_str) ==
    IF lvl_str \in {"DBUG", "dbug", "DBG", "dbg", "DEBUG", "debug"}
      THEN [lvl |-> "LGLVL.DBUG", diag |-> FALSE]
    ELSE IF lvl_str \in {"INFO", "info"}
      THEN [lvl |-> "LGLVL.INFO", diag |-> FALSE]
    ELSE IF lvl_str \in {"WARN", "warn", "WARNING", "warning"}
      THEN [lvl |-> "LGLVL.WARN", diag |-> FALSE]
    ELSE IF lvl_str \in {"ERRR", "err", "ERROR", "error"}
      THEN [lvl |-> "LGLVL.ERRR", diag |-> FALSE]
    ELSE IF lvl_str \in {"CRIT", "crit"}
      THEN [lvl |-> "LGLVL.CRIT", diag |-> FALSE]
    ELSE [lvl |-> "LGLVL.DBUG", diag |-> TRUE]

InvalidLevelLine == "Invalid log level string. Must be one of DBUG, INFO, WARN, ERRR, CRIT."

\* LOG_RECORD: unix_time is the reading of the clock at creation; tid is the
\* creating thread; the caller and process fields are not modelled.
LOG_RECORD(unix_time, msg_lvl, log_msg, tid) ==
    [unix_time |-> unix_time, msg_lvl |-> msg_lvl, log_msg |-> log_msg, tid |-> tid]

\* a local name that is not bound yet (next_req before the first get)
Unbound == [unix_time |-> 0, msg_lvl |-> None, log_msg |-> PyNone, tid |-> 0]

\* os.urandom(6).hex(): the tokens the model draws from
SessionIds == {"5e55a0", "5e55b1"}

\* ------------------------------------------------------------------ state
VARIABLES
    _STDOUT_LOGGING_ENABLED,    \* knob
    _DSS_ENABLED,               \* knob
    _STDOUT_LVL_FILTER_STRING,  \* knob
    _DSS_LVL_FILTER_STRING,     \* knob
    _lg36_initialized,          \* module global
    _lg36_init_lock,            \* 0 when free, else the thread holding it
    _STDOUT_LVL_FILTER,         \* None or a level
    _DSS_LVL_FILTER,            \* None or a level
    queues,                     \* every queue.Queue() made: its pending items
    _dssq,                      \* 0 for None, else the index of the queue in queues
    dss,                        \* every data_sink_service thread started
    db,                         \* the sqlite3 file: rows of lg36 and the AUTOINCREMENT counter
    stdout,                     \* lines printed
    clock,                      \* time.time() in ticks; one tick per call of an exported function
    pc,                         \* where each application thread is
    api,                        \* the exported function each thread is inside
    lgr,                        \* the record each thread is processing
    script,                     \* calls main2 still has to make, per thread
    put_ok,                     \* history: records whose put_nowait returned
    returned,                   \* history: records whose log call returned to the application
    after_stop,                 \* history: those of them that returned when no DSS thread was left running
    qraised,                    \* history: how many times put_nowait or get raised
    db_fd_ro,                   \* dump_lg36: the descriptor os.open returned, per thread
    db_conn                     \* dump_lg36: the read connection, per thread

knobs == <<_STDOUT_LOGGING_ENABLED, _DSS_ENABLED, _STDOUT_LVL_FILTER_STRING, _DSS_LVL_FILTER_STRING>>
globals == <<_lg36_initialized, _lg36_init_lock, _STDOUT_LVL_FILTER, _DSS_LVL_FILTER, _dssq>>
ro == <<db_fd_ro, db_conn>>
vars == <<ro, knobs, globals, queues, dss, db, stdout, clock, pc, api, lgr, script, put_ok, returned, after_stop, qraised>>

\* ------------------------------------------------------------------ helpers
\* _get_stdout_msg_fmt: the level prefix chosen by the if-chain, int(unix_time), the message
_get_stdout_msg_fmt(r) ==
    [k |-> "log",
     lvl |-> IF r.msg_lvl = "LGLVL.DBUG" THEN "DBUG"
             ELSE IF r.msg_lvl = "LGLVL.INFO" THEN "INFO"
             ELSE IF r.msg_lvl = "LGLVL.WARN" THEN "WARN"
             ELSE IF r.msg_lvl = "LGLVL.ERRR" THEN "ERRR"
             ELSE IF r.msg_lvl = "LGLVL.CRIT" THEN "CRIT"
             ELSE "",
     unix_time |-> r.unix_time,
     msg |-> fstr(r.log_msg)]

\* a line printed to the operator that is not a formatted record
OperatorLine(text) == [k |-> "diag", lvl |-> "", unix_time |-> 0, msg |-> text]

PutErrorLine == "lg36 error: unable to write to dss queue."
DssErrorLine == "DSS Error"

\* the exported log functions and the level each one passes to _mk_lgr
LogFns == {"dbg", "info", "warn", "err", "crit"}

FnLevel(fn) ==
    CASE fn = "dbg" -> "LGLVL.DBUG"
      [] fn = "info" -> "LGLVL.INFO"
      [] fn = "warn" -> "LGLVL.WARN"
      [] fn = "err" -> "LGLVL.ERRR"
      [] fn = "crit" -> "LGLVL.CRIT"

\* a stdout filter that also holds back the records at the threshold
PassesStdoutAbove(r) == _STDOUT_LOGGING_ENABLED /\ value(r.msg_lvl) > value(_STDOUT_LVL_FILTER)

\* the sink filters of _process_lgr (lines 507 and 513)
PassesStdout(r) == _STDOUT_LOGGING_ENABLED /\ value(r.msg_lvl) >= value(_STDOUT_LVL_FILTER)

\* a dss filter with the comparison the wrong way round
PassesDssBelow(r) == _DSS_ENABLED /\ value(r.msg_lvl) <= value(_DSS_LVL_FILTER)

PassesDss(r) == _DSS_ENABLED /\ value(r.msg_lvl) >= value(_DSS_LVL_FILTER)

\* _DEEP_VIEWS: the names of the views created at DSS start
_DEEP_VIEWS == {"lg36_med", "lg36_shrt", "lg36_shrt_ls", "lg36_shrt_ls_warn",
                "stats_tname", "stats_tid", "stats_pname", "stats_pid"}

\* _DSS_LOG_DIR when it does not exist: no file, so no table, view or row
NoStore == [file |-> FALSE, table |-> FALSE, views |-> {}, rows |-> <<>>, seq |-> 0]

\* ------------------------------------------------------------------ init
\* the module globals as "import lg36" sets them (lines 231-240), nothing
\* printed, no thread inside the module
ModuleGlobals ==
    /\ _lg36_initialized = FALSE
    /\ _lg36_init_lock = 0
    /\ _STDOUT_LVL_FILTER = None
    /\ _DSS_LVL_FILTER = None
    /\ queues = <<>>
    /\ _dssq = 0
    /\ dss = <<>>
    /\ stdout = <<>>
    /\ api = [t \in Threads |-> "none"]
    /\ lgr = [t \in Threads |-> Unbound]
    /\ put_ok = {}
    /\ returned = {}
    /\ after_stop = {}
    /\ qraised = 0
    /\ db_fd_ro = [t \in Threads |-> "unbound"]
    /\ db_conn = [t \in Threads |-> "unbound"]

Loaded(scr) ==
    /\ ModuleGlobals
    /\ db = NoStore
    /\ clock = 0
    /\ pc = [t \in Threads |-> "idle"]
    /\ script = scr

NoScript == [t \in Threads |-> <<>>]

\* both sinks enabled and the stdout threshold as the source sets them; the
\* durable threshold at WARN, so that some records pass it and some do not
\* (InitMain2 draws every combination of the knobs)
Init ==
    /\ _STDOUT_LOGGING_ENABLED = TRUE
    /\ _DSS_ENABLED = TRUE
    /\ _STDOUT_LVL_FILTER_STRING = "INFO"
    /\ _DSS_LVL_FILTER_STRING = "WARN"
    /\ Loaded(NoScript)

\* ------------------------------------------------------------------ application threads
\* dbg/info/warn/err/crit: _mk_lgr, then into _process_lgr
_mk_lgr(t, msg_lvl, log_msg) == LOG_RECORD(clock + 1, msg_lvl, log_msg, t)

EnterLog(t, fn, msg) ==
    /\ pc[t] = "idle"
    /\ clock' = clock + 1
    /\ lgr' = [lgr EXCEPT ![t] = _mk_lgr(t, FnLevel(fn), msg)]
    /\ api' = [api EXCEPT ![t] = fn]
    /\ pc' = [pc EXCEPT ![t] = "chk_init"]
    /\ UNCHANGED <<ro, knobs, globals, queues, dss, db, stdout, put_ok, returned, after_stop, qraised>>

\* the log functions the threads of Spec call: one below and one at or above
\* every threshold Init draws (main2 calls all five)
FreeFns == {"dbg", "warn"}

\* a thread calls a log function
LogCall(t) ==
    /\ clock < MaxCalls
    /\ script[t] = <<>>
    /\ \E fn \in FreeFns : EnterLog(t, fn, PyStr("m"))
    /\ UNCHANGED script

\* init_lg36: straight into _lg36_internal_init
EnterInit(t) ==
    /\ pc[t] = "idle"
    /\ clock' = clock + 1
    /\ api' = [api EXCEPT ![t] = "init_lg36"]
    /\ pc' = [pc EXCEPT ![t] = "lock"]
    /\ UNCHANGED <<ro, knobs, globals, queues, dss, db, stdout, lgr, put_ok, returned, after_stop, qraised>>

\* a thread calls init_lg36
InitCall(t) ==
    /\ clock < MaxCalls
    /\ script[t] = <<>>
    /\ EnterInit(t)
    /\ UNCHANGED script

\* _process_lgr line 503: lazy init if needed
ChkInit(t) ==
    /\ pc[t] = "chk_init"
    /\ pc' = [pc EXCEPT ![t] = IF ~_lg36_initialized THEN "lock" ELSE "stdout"]
    /\ UNCHANGED <<ro, knobs, globals, queues, dss, db, stdout, clock, api, lgr, script, put_ok, returned, after_stop, qraised>>

\* _lg36_internal_init line 455: with _lg36_init_lock
Lock(t) ==
    /\ pc[t] = "lock"
    /\ _lg36_init_lock = 0
    /\ _lg36_init_lock' = t
    /\ pc' = [pc EXCEPT ![t] = "recheck"]
    /\ UNCHANGED <<ro, knobs, _lg36_initialized, _STDOUT_LVL_FILTER, _DSS_LVL_FILTER, _dssq,
                   queues, dss, db, stdout, clock, api, lgr, script, put_ok, returned, after_stop, qraised>>

\* no second look at the flag once the lock is held
NeedsInitUnchecked == TRUE

\* line 458: the check repeated under the lock
NeedsInit == ~_lg36_initialized

\* an init_lg36 that runs the body whatever the flag says
RecheckUnlessInitCall(t) ==
    /\ pc[t] = "recheck"
    /\ pc' = [pc EXCEPT ![t] = IF NeedsInit \/ api[t] = "init_lg36" THEN "set_stdout_filter" ELSE "unlock"]
    /\ UNCHANGED <<ro, knobs, globals, queues, dss, db, stdout, clock, api, lgr, script, put_ok, returned, after_stop, qraised>>

Recheck(t) ==
    /\ pc[t] = "recheck"
    /\ pc' = [pc EXCEPT ![t] = IF NeedsInit THEN "set_stdout_filter" ELSE "unlock"]
    /\ UNCHANGED <<ro, knobs, globals, queues, dss, db, stdout, clock, api, lgr, script, put_ok, returned, after_stop, qraised>>

\* an init that sets the flag first and the globals after it
SetStdoutFilterFlagFirst(t) ==
    /\ pc[t] = "set_stdout_filter"
    /\ _lg36_initialized' = TRUE
    /\ LET p == _string_2_lglvl(_STDOUT_LVL_FILTER_STRING) IN
         /\ _STDOUT_LVL_FILTER' = p.lvl
         /\ stdout' = IF p.diag THEN Append(stdout, OperatorLine(InvalidLevelLine)) ELSE stdout
    /\ pc' = [pc EXCEPT ![t] = "set_dss_filter"]
    /\ UNCHANGED <<ro, knobs, _lg36_init_lock, _DSS_LVL_FILTER, _dssq,
                   queues, dss, db, clock, api, lgr, script, put_ok, returned, after_stop, qraised>>

\* line 461
SetStdoutFilter(t) ==
    /\ pc[t] = "set_stdout_filter"
    /\ LET p == _string_2_lglvl(_STDOUT_LVL_FILTER_STRING) IN
         /\ _STDOUT_LVL_FILTER' = p.lvl
         /\ stdout' = IF p.diag THEN Append(stdout, OperatorLine(InvalidLevelLine)) ELSE stdout
    /\ pc' = [pc EXCEPT ![t] = "set_dss_filter"]
    /\ UNCHANGED <<ro, knobs, _lg36_initialized, _lg36_init_lock, _DSS_LVL_FILTER, _dssq,
                   queues, dss, db, clock, api, lgr, script, put_ok, returned, after_stop, qraised>>

\* line 462
SetDssFilter(t) ==
    /\ pc[t] = "set_dss_filter"
    /\ LET p == _string_2_lglvl(_DSS_LVL_FILTER_STRING) IN
         /\ _DSS_LVL_FILTER' = p.lvl
         /\ stdout' = IF p.diag THEN Append(stdout, OperatorLine(InvalidLevelLine)) ELSE stdout
    /\ pc' = [pc EXCEPT ![t] = "mk_queue"]
    /\ UNCHANGED <<ro, knobs, _lg36_initialized, _lg36_init_lock, _STDOUT_LVL_FILTER, _dssq,
                   queues, dss, db, clock, api, lgr, script, put_ok, returned, after_stop, qraised>>

\* line 465: _dssq = queue.Queue()
MkQueue(t) ==
    /\ pc[t] = "mk_queue"
    /\ queues' = Append(queues, <<>>)
    /\ _dssq' = Len(queues) + 1
    /\ pc' = [pc EXCEPT ![t] = "start_thread"]
    /\ UNCHANGED <<ro, knobs, _lg36_initialized, _lg36_init_lock, _STDOUT_LVL_FILTER, _DSS_LVL_FILTER,
                   dss, db, stdout, clock, api, lgr, script, put_ok, returned, after_stop, qraised>>

\* the thread started without setDaemon(True)
StartThreadNonDaemon(t) ==
    /\ pc[t] = "start_thread"
    /\ dss' = Append(dss, [pc |-> "new", next_req |-> Unbound, _session_id |-> "", daemon |-> FALSE])
    /\ pc' = [pc EXCEPT ![t] = "set_flag"]
    /\ UNCHANGED <<ro, knobs, globals, queues, db, stdout, clock, api, lgr, script, put_ok, returned, after_stop, qraised>>

\* lines 466-468: the daemon thread is created and started
StartThread(t) ==
    /\ pc[t] = "start_thread"
    /\ dss' = Append(dss, [pc |-> "new", next_req |-> Unbound, _session_id |-> "", daemon |-> TRUE])
    /\ pc' = [pc EXCEPT ![t] = "set_flag"]
    /\ UNCHANGED <<ro, knobs, globals, queues, db, stdout, clock, api, lgr, script, put_ok, returned, after_stop, qraised>>

\* line 471
SetFlag(t) ==
    /\ pc[t] = "set_flag"
    /\ _lg36_initialized' = TRUE
    /\ pc' = [pc EXCEPT ![t] = "unlock"]
    /\ UNCHANGED <<ro, knobs, _lg36_init_lock, _STDOUT_LVL_FILTER, _DSS_LVL_FILTER, _dssq,
                   queues, dss, db, stdout, clock, api, lgr, script, put_ok, returned, after_stop, qraised>>

\* the end of the with block; back in _process_lgr, or init_lg36 returns
Unlock(t) ==
    /\ pc[t] = "unlock"
    /\ _lg36_init_lock' = 0
    /\ pc' = [pc EXCEPT ![t] = IF api[t] = "init_lg36" THEN "idle" ELSE "stdout"]
    /\ api' = [api EXCEPT ![t] = IF api[t] = "init_lg36" THEN "none" ELSE @]
    /\ UNCHANGED <<ro, knobs, _lg36_initialized, _STDOUT_LVL_FILTER, _DSS_LVL_FILTER, _dssq,
                   queues, dss, db, stdout, clock, lgr, script, put_ok, returned, after_stop, qraised>>

\* lines 507-510: the stdout sink.  Reading .value of a threshold that is
\* still None raises, and nothing in the log functions catches it.
StdoutSink(t) ==
    /\ pc[t] = "stdout"
    /\ IF _STDOUT_LOGGING_ENABLED /\ _STDOUT_LVL_FILTER = None
         THEN /\ pc' = [pc EXCEPT ![t] = "raised"]
              /\ UNCHANGED stdout
         ELSE /\ pc' = [pc EXCEPT ![t] = "dss"]
              /\ stdout' = IF PassesStdout(lgr[t])
                             THEN Append(stdout, _get_stdout_msg_fmt(lgr[t]))
                             ELSE stdout
    /\ UNCHANGED <<ro, knobs, globals, queues, dss, db, clock, api, lgr, script, put_ok, returned, after_stop, qraised>>

\* a data sink service thread was started and none is running any more
DssStopped == dss # <<>> /\ \A i \in DOMAIN dss : dss[i].pc \in {"init_failed", "crashed"}

\* a queue made with maxsize=1 and filled with a blocking put
PutReadyBounded(q) == Len(q) < 1

\* queue.Queue() has no maxsize: put_nowait never finds the queue full
PutReady(q) == TRUE

\* lines 513-520: the dss sink, then the log function returns.  The filter is
\* evaluated outside the try; put_nowait on a _dssq that is None is caught.
DssSink(t) ==
    /\ pc[t] = "dss"
    /\ IF _DSS_ENABLED /\ _DSS_LVL_FILTER = None
         THEN /\ pc' = [pc EXCEPT ![t] = "raised"]
              /\ UNCHANGED <<queues, stdout, put_ok, returned, after_stop, api, lgr>>
         ELSE /\ pc' = [pc EXCEPT ![t] = "idle"]
              /\ api' = [api EXCEPT ![t] = "none"]
              /\ lgr' = [lgr EXCEPT ![t] = Unbound]
              /\ returned' = returned \cup {lgr[t]}
              /\ after_stop' = IF DssStopped THEN after_stop \cup {lgr[t]} ELSE after_stop
              /\ IF ~PassesDss(lgr[t])
                   THEN UNCHANGED <<queues, stdout, put_ok>>
                   ELSE IF _dssq = 0
                     THEN /\ stdout' = Append(stdout, OperatorLine(PutErrorLine))
                          /\ UNCHANGED <<queues, put_ok>>
                     ELSE /\ PutReady(queues[_dssq])
                          /\ queues' = [queues EXCEPT ![_dssq] = Append(@, lgr[t])]
                          /\ put_ok' = put_ok \cup {lgr[t]}
                          /\ UNCHANGED stdout
    /\ UNCHANGED <<ro, knobs, globals, dss, db, clock, script, qraised>>

\* a put_nowait outside any try: its exception leaves the log function
DssSinkPutEscapes(t) ==
    /\ pc[t] = "dss"
    /\ qraised < MaxQRaises
    /\ qraised' = qraised + 1
    /\ ~(_DSS_ENABLED /\ _DSS_LVL_FILTER = None)
    /\ PassesDss(lgr[t])
    /\ pc' = [pc EXCEPT ![t] = "raised"]
    /\ UNCHANGED <<ro, knobs, globals, queues, dss, db, stdout, clock, api, lgr, script, put_ok, returned, after_stop>>

\* lines 517-520 when put_nowait raises: the handler prints and the log
\* function returns; the record is not in the queue
DssSinkPutRaises(t) ==
    /\ pc[t] = "dss"
    /\ qraised < MaxQRaises
    /\ qraised' = qraised + 1
    /\ ~(_DSS_ENABLED /\ _DSS_LVL_FILTER = None)
    /\ PassesDss(lgr[t])
    /\ stdout' = Append(stdout, OperatorLine(PutErrorLine))
    /\ pc' = [pc EXCEPT ![t] = "idle"]
    /\ api' = [api EXCEPT ![t] = "none"]
    /\ lgr' = [lgr EXCEPT ![t] = Unbound]
    /\ returned' = returned \cup {lgr[t]}
    /\ after_stop' = IF DssStopped THEN after_stop \cup {lgr[t]} ELSE after_stop
    /\ UNCHANGED <<ro, knobs, globals, queues, dss, db, clock, script, put_ok>>

\* flush_curr_thread: time.sleep(0.3)
EnterFlush(t) ==
    /\ pc[t] = "idle"
    /\ clock' = clock + 1
    /\ api' = [api EXCEPT ![t] = "flush_curr_thread"]
    /\ pc' = [pc EXCEPT ![t] = "sleep"]
    /\ UNCHANGED <<ro, knobs, globals, queues, dss, db, stdout, lgr, put_ok, returned, after_stop, qraised>>

\* a thread calls flush_curr_thread
FlushCall(t) ==
    /\ clock < MaxCalls
    /\ script[t] = <<>>
    /\ EnterFlush(t)
    /\ UNCHANGED script

\* the sleep is over and flush_curr_thread returns: to the application, or
\* into dump_lg36 when that is its caller
FlushReturn(t) ==
    /\ pc[t] = "sleep"
    /\ api' = IF api[t] = "dump_lg36" THEN api ELSE [api EXCEPT ![t] = "none"]
    /\ pc' = [pc EXCEPT ![t] = IF api[t] = "dump_lg36" THEN "dump_open" ELSE "idle"]
    /\ UNCHANGED <<ro, knobs, globals, queues, dss, db, stdout, clock, lgr, script, put_ok, returned, after_stop, qraised>>

\* ------------------------------------------------------------------ the data sink service thread
\* a constructor whose schema statement is a plain CREATE TABLE: it raises on
\* a store that has the table
DATA_SINK_SERVICE_Create(d) ==
    IF d.table THEN [err |-> TRUE, db |-> [d EXCEPT !.file = TRUE]]
    ELSE [err |-> FALSE, db |-> [d EXCEPT !.file = TRUE, !.table = TRUE, !.views = @ \cup _DEEP_VIEWS]]

\* what the statements of DATA_SINK_SERVICE.__init__ do to the store d:
\* connect creates the file when there is none, CREATE TABLE IF NOT EXISTS
\* and CREATE VIEW IF NOT EXISTS add what is missing and keep what is there
DATA_SINK_SERVICE(d) ==
    [err |-> FALSE, db |-> [d EXCEPT !.file = TRUE, !.table = TRUE, !.views = @ \cup _DEEP_VIEWS]]

\* DATA_SINK_SERVICE.__init__ (run at the top of _dss_entry): the session id,
\* the connection, PRAGMA, CREATE TABLE IF NOT EXISTS, CREATE VIEW IF NOT EXISTS
DssInit(i) ==
    /\ dss[i].pc = "new"
    /\ LET s == DATA_SINK_SERVICE(db) IN
         /\ \E sid \in SessionIds :
              dss' = [dss EXCEPT ![i] = [@ EXCEPT !.pc = IF s.err THEN "init_failed" ELSE "get",
                                                  !._session_id = sid]]
         /\ db' = s.db
    /\ UNCHANGED <<ro, knobs, globals, queues, stdout, clock, pc, api, lgr, script, put_ok, returned, after_stop, qraised>>

\* the store an __init__ leaves behind store d when it fails after connect:
\* the file when a pragma or the schema statement raised, the file with the
\* table when a view statement raised
FailedStores(d) ==
    {[d EXCEPT !.file = TRUE], [d EXCEPT !.file = TRUE, !.table = TRUE]}

\* a pragma, the schema statement or a view statement of __init__ raises
\* (lines 378-386): the thread ends as in DssInitFails, the store keeps what
\* the statements before it made.  Only dump_lg36 can tell the difference.
DssInitFailsLate(i) ==
    /\ dss[i].pc = "new"
    /\ \E sid \in SessionIds :
         dss' = [dss EXCEPT ![i] = [@ EXCEPT !.pc = "init_failed", !._session_id = sid]]
    /\ db' \in FailedStores(db)
    /\ UNCHANGED <<ro, knobs, globals, queues, stdout, clock, pc, api, lgr, script, put_ok, returned, after_stop, qraised>>

\* an __init__ failure after which lg36 counts as not initialized again
DssInitFailsResets(i) ==
    /\ dss[i].pc = "new"
    /\ \E sid \in SessionIds :
         dss' = [dss EXCEPT ![i] = [@ EXCEPT !.pc = "init_failed", !._session_id = sid]]
    /\ _lg36_initialized' = FALSE
    /\ UNCHANGED <<ro, knobs, _lg36_init_lock, _STDOUT_LVL_FILTER, _DSS_LVL_FILTER, _dssq,
                   queues, db, stdout, clock, pc, api, lgr, script, put_ok, returned, after_stop, qraised>>

\* sqlite3.connect raises (line 373): _dss_entry has no handler around
\* DATA_SINK_SERVICE(), the thread ends; the store is as it was
DssInitFails(i) ==
    /\ dss[i].pc = "new"
    /\ \E sid \in SessionIds :
         dss' = [dss EXCEPT ![i] = [@ EXCEPT !.pc = "init_failed", !._session_id = sid]]
    /\ UNCHANGED <<ro, knobs, globals, queues, db, stdout, clock, pc, api, lgr, script, put_ok, returned, after_stop, qraised>>

\* a get that hands out the newest item instead
QueueGetNewest(q) == [item |-> q[Len(q)], rest |-> SubSeq(q, 1, Len(q) - 1)]

\* the item _dssq.get(block=True) returns: the oldest one
QueueGet(q) == [item |-> Head(q), rest |-> Tail(q)]

\* a loop entered without waiting for DATA_SINK_SERVICE() to return
DssGetEarly(i) ==
    /\ dss[i].pc \in {"new", "get"}
    /\ _dssq # 0
    /\ queues[_dssq] # <<>>
    /\ LET g == QueueGet(queues[_dssq]) IN
         /\ dss' = [dss EXCEPT ![i] = [@ EXCEPT !.pc = "proc", !.next_req = g.item]]
         /\ queues' = [queues EXCEPT ![_dssq] = g.rest]
    /\ UNCHANGED <<ro, knobs, globals, db, stdout, clock, pc, api, lgr, script, put_ok, returned, after_stop, qraised>>

\* line 437: blocks until an item is available
DssGet(i) ==
    /\ dss[i].pc = "get"
    /\ _dssq # 0
    /\ queues[_dssq] # <<>>
    /\ LET g == QueueGet(queues[_dssq]) IN
         /\ dss' = [dss EXCEPT ![i] = [@ EXCEPT !.pc = "proc", !.next_req = g.item]]
         /\ queues' = [queues EXCEPT ![_dssq] = g.rest]
    /\ UNCHANGED <<ro, knobs, globals, db, stdout, clock, pc, api, lgr, script, put_ok, returned, after_stop, qraised>>

\* a row whose message is "log_msg or ''": None is stored as the empty string
RowNoneAsEmpty(mid, session_id, r) ==
    [mid |-> mid,
     session_id |-> session_id,
     unix_time |-> ToString(r.unix_time),
     msg_lvl |-> LGLVL__str__(r.msg_lvl),
     tid |-> ToString(r.tid),
     log_msg |-> IF r.log_msg.none THEN PyStr("") ELSE r.log_msg]

\* the row _save_lgr builds (lines 398-399) with the mid sqlite assigns
Row(mid, session_id, r) ==
    [mid |-> mid,
     session_id |-> session_id,
     unix_time |-> ToString(r.unix_time),
     msg_lvl |-> LGLVL__str__(r.msg_lvl),
     tid |-> ToString(r.tid),
     log_msg |-> r.log_msg]

\* a _save_lgr that draws a session id for each row
DssSaveOwnSession(i) ==
    /\ dss[i].pc = "proc"
    /\ dss[i].next_req # Unbound
    /\ \E sid \in SessionIds :
         db' = [db EXCEPT !.rows = Append(@, Row(db.seq + 1, sid, dss[i].next_req)), !.seq = @ + 1]
    /\ dss' = [dss EXCEPT ![i] = [@ EXCEPT !.pc = "get"]]
    /\ UNCHANGED <<ro, knobs, globals, queues, stdout, clock, pc, api, lgr, script, put_ok, returned, after_stop, qraised>>

\* a process_req that takes the item for something other than a LOG_RECORD
DssSaveNothing(i) ==
    /\ dss[i].pc = "proc"
    /\ dss' = [dss EXCEPT ![i] = [@ EXCEPT !.pc = "get"]]
    /\ UNCHANGED <<ro, knobs, globals, queues, db, stdout, clock, pc, api, lgr, script, put_ok, returned, after_stop, qraised>>

\* a _save_lgr that keeps one row only: INSERT OR REPLACE with a fixed mid
DssSaveReplace(i) ==
    /\ dss[i].pc = "proc"
    /\ dss[i].next_req # Unbound
    /\ db' = [db EXCEPT !.rows = <<Row(1, dss[i]._session_id, dss[i].next_req)>>, !.seq = 1]
    /\ dss' = [dss EXCEPT ![i] = [@ EXCEPT !.pc = "get"]]
    /\ UNCHANGED <<ro, knobs, globals, queues, stdout, clock, pc, api, lgr, script, put_ok, returned, after_stop, qraised>>

\* line 443, process_req -> _save_lgr: one INSERT in autocommit mode.  A
\* next_req that was never bound is a NameError, which ends the thread.
DssSave(i) ==
    /\ dss[i].pc = "proc"
    /\ IF dss[i].next_req = Unbound
         THEN /\ dss' = [dss EXCEPT ![i] = [@ EXCEPT !.pc = "crashed"]]
              /\ UNCHANGED db
         ELSE /\ db' = [db EXCEPT !.rows = Append(@, Row(db.seq + 1, dss[i]._session_id, dss[i].next_req)),
                                  !.seq = @ + 1]
              /\ dss' = [dss EXCEPT ![i] = [@ EXCEPT !.pc = "get"]]
    /\ UNCHANGED <<ro, knobs, globals, queues, stdout, clock, pc, api, lgr, script, put_ok, returned, after_stop, qraised>>

\* line 443 when the INSERT raises: process_req is outside the try of the
\* loop, the exception leaves _dss_entry and the thread ends
DssSaveFails(i) ==
    /\ dss[i].pc = "proc"
    /\ dss[i].next_req # Unbound
    /\ dss' = [dss EXCEPT ![i] = [@ EXCEPT !.pc = "crashed", !.next_req = Unbound]]
    /\ UNCHANGED <<ro, knobs, globals, queues, db, stdout, clock, pc, api, lgr, script, put_ok, returned, after_stop, qraised>>

\* lines 437-443 when get raises: the handler prints, and control falls
\* through to process_req with whatever next_req holds
DssGetRaises(i) ==
    /\ dss[i].pc = "get"
    /\ qraised < MaxQRaises
    /\ qraised' = qraised + 1
    /\ stdout' = Append(stdout, OperatorLine(DssErrorLine))
    /\ dss' = [dss EXCEPT ![i] = [@ EXCEPT !.pc = "proc"]]
    /\ UNCHANGED <<ro, knobs, globals, queues, db, clock, pc, api, lgr, script, put_ok, returned, after_stop>>

\* ------------------------------------------------------------------ dump_lg36
\* dump_lg36 starts with flush_curr_thread(); db_fd_ro and db_conn are locals
\* of this call and not bound yet
EnterDump(t) ==
    /\ pc[t] = "idle"
    /\ clock' = clock + 1
    /\ api' = [api EXCEPT ![t] = "dump_lg36"]
    /\ pc' = [pc EXCEPT ![t] = "sleep"]
    /\ db_fd_ro' = [db_fd_ro EXCEPT ![t] = "unbound"]
    /\ db_conn' = [db_conn EXCEPT ![t] = "unbound"]
    /\ UNCHANGED <<knobs, globals, queues, dss, db, stdout, lgr, put_ok, returned, after_stop, qraised>>

HeaderLine == "lg36:"
ErrorLine == "Error"
TrailerLine == "<<<<<"

\* the line printed for one row: _db_row_to_string over its cells
_db_row_to_string(row) == [k |-> "row", cells |-> row]

\* lines 657-658 and 625: the header is printed, then os.open(_DSS_LOG_FILE,
\* O_RDONLY).  With no file it raises; the handler of dump_lg36 prints, and
\* the finally clause calls close() on a db_conn that was never bound, which
\* raises out of dump_lg36.
DumpOpen(t) ==
    /\ pc[t] = "dump_open"
    /\ IF db.file
         THEN /\ db_fd_ro' = [db_fd_ro EXCEPT ![t] = "open"]
              /\ stdout' = Append(stdout, OperatorLine(HeaderLine))
              /\ pc' = [pc EXCEPT ![t] = "dump_connect"]
         ELSE /\ stdout' = stdout \o <<OperatorLine(HeaderLine), OperatorLine(ErrorLine)>>
              /\ pc' = [pc EXCEPT ![t] = "raised"]
              /\ UNCHANGED db_fd_ro
    /\ UNCHANGED <<db_conn, knobs, globals, queues, dss, db, clock, api, lgr, script, put_ok, returned, after_stop, qraised>>

\* lines 628-631: sqlite3.connect on /dev/fd/N, then os.close of the descriptor
DumpConnect(t) ==
    /\ pc[t] = "dump_connect"
    /\ db_conn' = [db_conn EXCEPT ![t] = "open"]
    /\ db_fd_ro' = [db_fd_ro EXCEPT ![t] = "closed"]
    /\ pc' = [pc EXCEPT ![t] = "dump_select"]
    /\ UNCHANGED <<knobs, globals, queues, dss, db, stdout, clock, api, lgr, script, put_ok, returned, after_stop, qraised>>

\* line 628 when sqlite3.connect raises: os.close is skipped, the handler of
\* dump_lg36 prints, and the finally clause raises on the unbound db_conn
DumpConnectRaises(t) ==
    /\ pc[t] = "dump_connect"
    /\ stdout' = Append(stdout, OperatorLine(ErrorLine))
    /\ pc' = [pc EXCEPT ![t] = "raised"]
    /\ UNCHANGED <<ro, knobs, globals, queues, dss, db, clock, api, lgr, script, put_ok, returned, after_stop, qraised>>

\* lines 662-675: SELECT * FROM lg36 and one line per row, or the handler's
\* line when the statement raises; db_conn.close() in the finally clause, the
\* trailer, and dump_lg36 returns
DumpSelect(t) ==
    /\ pc[t] = "dump_select"
    /\ stdout' = stdout \o (IF db.table
                              THEN [k \in 1..Len(db.rows) |-> _db_row_to_string(db.rows[k])]
                              ELSE <<OperatorLine(ErrorLine)>>)
                        \o <<OperatorLine(TrailerLine)>>
    /\ db_conn' = [db_conn EXCEPT ![t] = "closed"]
    /\ pc' = [pc EXCEPT ![t] = "idle"]
    /\ api' = [api EXCEPT ![t] = "none"]
    /\ UNCHANGED <<db_fd_ro, knobs, globals, queues, dss, db, clock, lgr, script, put_ok, returned, after_stop, qraised>>

DumpStep(t) ==
    \/ DumpOpen(t)
    \/ DumpConnect(t)
    \/ DumpConnectRaises(t)
    \/ DumpSelect(t)

\* ------------------------------------------------------------------ sample_app.main2
\* the calls of main2, in order
main2 ==
    << [fn |-> "dump_lg36_knobs", msg |-> PyNone],
       [fn |-> "dbg", msg |-> PyStr("dddd")],
       [fn |-> "info", msg |-> PyStr("iiii")],
       [fn |-> "warn", msg |-> PyStr("wwww")],
       [fn |-> "err", msg |-> PyStr("eeee")],
       [fn |-> "crit", msg |-> PyStr("cccc cccc CCCC")],
       [fn |-> "warn", msg |-> PyNone],
       [fn |-> "flush_curr_thread", msg |-> PyNone],
       [fn |-> "dump_lg36", msg |-> PyNone] >>

\* dump_lg36_knobs: prints the knobs, touches nothing else
dump_lg36_knobs(t) ==
    /\ pc[t] = "idle"
    /\ stdout' = Append(stdout, OperatorLine("dbg_dump_lg36_knobs"))
    /\ UNCHANGED <<ro, knobs, globals, queues, dss, db, clock, pc, api, lgr, put_ok, returned, after_stop, qraised>>

\* the thread running main2 makes its next call
ScriptCall(t) ==
    /\ script[t] # <<>>
    /\ script' = [script EXCEPT ![t] = Tail(@)]
    /\ LET c == Head(script[t]) IN
         IF c.fn \in LogFns THEN EnterLog(t, c.fn, c.msg)
         ELSE IF c.fn = "flush_curr_thread" THEN EnterFlush(t)
         ELSE IF c.fn = "init_lg36" THEN EnterInit(t)
         ELSE IF c.fn = "dump_lg36" THEN EnterDump(t)
         ELSE dump_lg36_knobs(t)

\* the level strings a knob is set to in InitMain2: the canonical names, an
\* alias and a string _string_2_lglvl does not know
KnobStrings == {"DBUG", "INFO", "WARN", "ERRR", "CRIT", "warning", "verbose"}

\* thread 1 is the main thread of sample_app, under every setting of the knobs
InitMain2 ==
    /\ _STDOUT_LOGGING_ENABLED \in BOOLEAN
    /\ _DSS_ENABLED \in BOOLEAN
    /\ _STDOUT_LVL_FILTER_STRING \in KnobStrings
    /\ _DSS_LVL_FILTER_STRING \in KnobStrings
    /\ Loaded([t \in Threads |-> IF t = 1 THEN main2 ELSE <<>>])

\* ------------------------------------------------------------------ specification
ThreadStep(t) ==
    \/ ChkInit(t)
    \/ Lock(t)
    \/ Recheck(t)
    \/ SetStdoutFilter(t)
    \/ SetDssFilter(t)
    \/ MkQueue(t)
    \/ StartThread(t)
    \/ SetFlag(t)
    \/ Unlock(t)
    \/ StdoutSink(t)
    \/ DssSink(t)
    \/ FlushReturn(t)

DssStep(i) ==
    \/ DssInit(i)
    \/ DssInitFails(i)
    \/ DssGet(i)
    \/ DssSave(i)
    \/ DssSaveFails(i)

Next ==
    \/ \E t \in Threads : LogCall(t)
    \/ \E t \in Threads : InitCall(t)
    \/ \E t \in Threads : FlushCall(t)
    \/ \E t \in Threads : ThreadStep(t)
    \/ \E i \in DOMAIN dss : DssStep(i)

Spec == Init /\ [][Next]_vars

\* Spec with the two handlers around the queue operations taken as well
NextQFault ==
    \/ Next
    \/ \E t \in Threads : DssSinkPutRaises(t)
    \/ \E i \in DOMAIN dss : DssGetRaises(i)

SpecQFault == Init /\ [][NextQFault]_vars

\* ------------------------------------------------------------------ one run of a process
\* the session id of the earlier run
OldSession == "01d5e5"

\* the store an earlier run left behind: what its DATA_SINK_SERVICE() and n
\* calls of its _save_lgr made
PriorStore(n) ==
    [DATA_SINK_SERVICE(NoStore).db EXCEPT
        !.rows = [k \in 1..n |-> Row(k, OldSession, LOG_RECORD(k, "LGLVL.WARN", PyStr("old"), 1))],
        !.seq = n]

PriorStores == {NoStore} \cup {PriorStore(n) : n \in 0..MaxOldRows}

\* the messages the application of SpecRun logs: None, the empty string, a text
Msgs == {PyNone, PyStr(""), PyStr("m")}

\* an application that logs two warnings and dumps the log, as main2 does at its end
RunScripts ==
    {<< [fn |-> "warn", msg |-> m1], [fn |-> "warn", msg |-> m2], [fn |-> "dump_lg36", msg |-> PyNone] >> :
        m1 \in Msgs, m2 \in Msgs}

\* a process about to import lg36, the knobs as the source sets them, the
\* store as an earlier run (or none) left it
InitRun ==
    /\ _STDOUT_LOGGING_ENABLED = TRUE
    /\ _DSS_ENABLED = TRUE
    /\ _STDOUT_LVL_FILTER_STRING = "INFO"
    /\ _DSS_LVL_FILTER_STRING = "DBUG"
    /\ ModuleGlobals
    /\ db \in PriorStores
    /\ clock = db.seq
    /\ pc = [t \in Threads |-> "import"]
    /\ \E scr \in RunScripts : script = [t \in Threads |-> IF t = 1 THEN scr ELSE <<>>]

\* lines 87-91, run by "import lg36": shutil.rmtree(_DSS_LOG_DIR,
\* ignore_errors=True) removes the directory with the store in it; a removal
\* that fails is ignored and leaves the directory as it is
ModuleLoad ==
    /\ \A t \in Threads : pc[t] = "import"
    /\ \E removed \in BOOLEAN : db' = IF removed THEN NoStore ELSE db
    /\ pc' = [t \in Threads |-> "idle"]
    /\ UNCHANGED <<ro, knobs, globals, queues, dss, stdout, clock, api, lgr, script, put_ok, returned, after_stop, qraised>>

\* every application thread has made its calls and is in none (or was ended
\* by an exception)
AppDone == \A t \in Threads : script[t] = <<>> /\ pc[t] \in {"idle", "raised"}

\* the interpreter exits when its non-daemon threads have ended; the daemon
\* threads (line 467) are stopped wherever they are
ProcessExit ==
    /\ AppDone
    /\ \A i \in DOMAIN dss : dss[i].daemon \/ dss[i].pc \in {"init_failed", "crashed"}
    /\ pc' = [t \in Threads |-> "exited"]
    /\ dss' = [i \in DOMAIN dss |->
                 IF dss[i].pc \in {"init_failed", "crashed"} THEN dss[i] ELSE [dss[i] EXCEPT !.pc = "killed"]]
    /\ UNCHANGED <<ro, knobs, globals, queues, db, stdout, clock, api, lgr, script, put_ok, returned, after_stop, qraised>>

NextRun ==
    \/ ModuleLoad
    \/ \E t \in Threads : ScriptCall(t)
    \/ \E t \in Threads : ThreadStep(t)
    \/ \E t \in Threads : DumpStep(t)
    \/ \E i \in DOMAIN dss : DssStep(i)
    \/ \E i \in DOMAIN dss : DssInitFailsLate(i)
    \/ ProcessExit

SpecRun == InitRun /\ [][NextRun]_vars

\* ------------------------------------------------------------------ the level knobs
\* the strings InitParse sets a level knob to: every string _string_2_lglvl
\* lists, other spellings of them, and strings that name no level
LevelStrings ==
    {"DBUG", "dbug", "DBG", "dbg", "DEBUG", "debug", "INFO", "info",
     "WARN", "warn", "WARNING", "warning", "ERRR", "err", "ERROR", "error", "CRIT", "crit",
     "Dbug", "Debug", "Info", "Warn", "wARN", "Warning", "errr", "ERR", "Err", "Crit",
     "", "verbose", "TRACE", "warn ", "50"}

\* every thread calls init_lg36, under every setting of the two level knobs
InitParse ==
    /\ _STDOUT_LOGGING_ENABLED = TRUE
    /\ _DSS_ENABLED = TRUE
    /\ _STDOUT_LVL_FILTER_STRING \in LevelStrings
    /\ _DSS_LVL_FILTER_STRING \in LevelStrings
    /\ Loaded([t \in Threads |-> << [fn |-> "init_lg36", msg |-> PyNone] >>])

\* the steps of _lg36_internal_init
InitStep(t) ==
    \/ Lock(t)
    \/ Recheck(t)
    \/ SetStdoutFilter(t)
    \/ SetDssFilter(t)
    \/ MkQueue(t)
    \/ StartThread(t)
    \/ SetFlag(t)
    \/ Unlock(t)

NextParse ==
    \/ \E t \in Threads : ScriptCall(t)
    \/ \E t \in Threads : InitStep(t)

SpecParse == InitParse /\ [][NextParse]_vars

\* sample_app: one application thread running main2
NextMain2 ==
    \/ \E t \in Threads : ScriptCall(t)
    \/ \E t \in Threads : ThreadStep(t)
    \/ \E t \in Threads : DumpStep(t)
    \/ \E i \in DOMAIN dss : DssStep(i)
    \/ \E i \in DOMAIN dss : DssInitFailsLate(i)

SpecMain2 == InitMain2 /\ [][NextMain2]_vars

\* ------------------------------------------------------------------ properties
\* the row was inserted for record r
RowOf(r, row) == row.unix_time = ToString(r.unix_time) /\ row.tid = ToString(r.tid)

Stored(r) == {k \in DOMAIN db.rows : RowOf(r, db.rows[k])}
Queued(r) == {qk \in {<<q, k>> : q \in DOMAIN queues, k \in 1..MaxCalls} :
                 qk[2] \in DOMAIN queues[qk[1]] /\ queues[qk[1]][qk[2]] = r}
Held(r) == {i \in DOMAIN dss : dss[i].pc = "proc" /\ dss[i].next_req = r}

\* C1: a failing item does not end the consumer: no data sink service thread
\* is ever ended by an exception out of process_req.
C1_ConsumerSurvivesBadItem == \A i \in DOMAIN dss : dss[i].pc # "crashed"

\* C2: when flush_curr_thread returns to thread t, every record t enqueued
\* before the call has a row in the store.
C2_FlushedWhenFlushReturns ==
    [][\A t \in Threads :
          (pc[t] = "sleep" /\ pc'[t] = "idle")
             => \A r \in put_ok : r.tid = t => Stored(r) # {}]_vars

\* C3: in mid order, the rows of one thread are in the order of that thread's
\* calls: no row of a later call precedes a row of an earlier call.
C3_PerThreadOrder ==
    \A j, k \in DOMAIN db.rows :
       \A r1, r2 \in put_ok :
          (j < k /\ db.rows[j].mid < db.rows[k].mid /\ r1.tid = r2.tid
             /\ RowOf(r1, db.rows[j]) /\ RowOf(r2, db.rows[k]))
          => r1.unix_time <= r2.unix_time

\* three rows in the store, two of one thread and one of another
C3_Witness ==
    /\ Len(db.rows) = 3
    /\ \E j, k \in DOMAIN db.rows : j # k /\ db.rows[j].tid = db.rows[k].tid
    /\ \E j, k \in DOMAIN db.rows : db.rows[j].tid # db.rows[k].tid

\* C4: every record whose put returned is in exactly one place (the queue, the
\* consumer's hands, one row), and every row is the row of such a record.
C4_ExactlyOnePlace ==
    /\ \A r \in put_ok :
          Cardinality(Queued(r)) + Cardinality(Held(r)) + Cardinality(Stored(r)) = 1
    /\ \A k \in DOMAIN db.rows : \E r \in put_ok : RowOf(r, db.rows[k])

\* C5: the body of _lg36_internal_init runs once: at most one queue and one
\* data sink service thread are ever made, and exactly one of each once the
\* flag is set.
C5_InitOnce ==
    /\ Len(queues) <= 1
    /\ Len(dss) <= 1
    /\ _lg36_initialized => (Len(queues) = 1 /\ Len(dss) = 1 /\ _dssq = 1)

\* a thread that passed the unlocked check, or called init_lg36, holds the
\* lock after another thread has finished the init, while a third call waits
C5_Witness ==
    \E t, u \in Threads :
       /\ t # u
       /\ pc[t] = "recheck" /\ _lg36_initialized /\ Len(dss) = 1
       /\ pc[u] = "lock"
       /\ api[t] \in LogFns /\ api[u] = "init_lg36"

\* the thresholds the knobs stand for
Ts == _string_2_lglvl(_STDOUT_LVL_FILTER_STRING).lvl
Td == _string_2_lglvl(_DSS_LVL_FILTER_STRING).lvl

\* the stdout lines printed for record r
Lines(r) == {k \in DOMAIN stdout : stdout[k].k = "log" /\ stdout[k].unix_time = r.unix_time}

\* main2's first five calls: dbg, info, warn, err, crit
FirstFive(S) == {r \in S : r.unix_time <= 5}

\* C6: a call that returned has printed one line iff stdout is enabled and its
\* level is at or above Ts, and has enqueued its record iff the durable sink
\* is enabled and its level is at or above Td; with Ts = WARN and Td = DBUG
\* the five calls dbg..crit print WARN, ERRR, CRIT and enqueue five records.
C6_FilterDecisions ==
    /\ \A r \in returned :
          /\ Cardinality(Lines(r)) =
                IF _STDOUT_LOGGING_ENABLED /\ value(r.msg_lvl) >= value(Ts) THEN 1 ELSE 0
          /\ \A k \in Lines(r) : stdout[k].lvl = LGLVL__str__(r.msg_lvl)
          /\ r \in put_ok <=> (_DSS_ENABLED /\ value(r.msg_lvl) >= value(Td))
    /\ (/\ _STDOUT_LOGGING_ENABLED /\ _DSS_ENABLED
        /\ Ts = "LGLVL.WARN" /\ Td = "LGLVL.DBUG"
        /\ Cardinality(FirstFive(returned)) = 5)
       => /\ SelectSeq(stdout, LAMBDA l : l.k = "log" /\ l.unix_time <= 5)
               = << [k |-> "log", lvl |-> "WARN", unix_time |-> 3, msg |-> "wwww"],
                    [k |-> "log", lvl |-> "ERRR", unix_time |-> 4, msg |-> "eeee"],
                    [k |-> "log", lvl |-> "CRIT", unix_time |-> 5, msg |-> "cccc cccc CCCC"] >>
          /\ Cardinality(FirstFive(put_ok)) = 5

\* main2 has made its five calls with the stdout threshold at WARN and the
\* durable threshold at DBUG
C6_Witness ==
    /\ _STDOUT_LOGGING_ENABLED /\ _DSS_ENABLED
    /\ _STDOUT_LVL_FILTER_STRING = "warning" /\ _DSS_LVL_FILTER_STRING = "DBUG"
    /\ Cardinality(FirstFive(returned)) = 5
    /\ \E r \in returned : Lines(r) = {} /\ r \in put_ok

\* C7: no log call ends with an exception in the application thread.
C7_LogCallsReturn == \A t \in Threads : pc[t] # "raised"

\* log calls have returned although a put raised, an INSERT raised in the
\* consumer, and (for another call) the consumer thread had already ended
C7_Witness ==
    /\ \E r \in returned : PassesDss(r) /\ r \notin put_ok
    /\ \E i \in DOMAIN dss : dss[i].pc = "crashed"
    /\ \E r \in after_stop : Queued(r) # {}
    /\ \A t \in Threads : pc[t] = "idle"

\* the position of a thread inside a log call or init_lg36
Rank(p) ==
    CASE p = "chk_init" -> 1
      [] p = "lock" -> 2
      [] p = "recheck" -> 3
      [] p = "set_stdout_filter" -> 4
      [] p = "set_dss_filter" -> 5
      [] p = "mk_queue" -> 6
      [] p = "start_thread" -> 7
      [] p = "set_flag" -> 8
      [] p = "unlock" -> 9
      [] p = "stdout" -> 10
      [] p = "dss" -> 11
      [] OTHER -> 0

\* C8: a thread inside a log call can always take its next step, whatever the
\* consumer is doing, except while another application thread holds the init
\* lock (and that thread can take its own next step); and every step moves the
\* thread forward, so a call is over after at most eleven of its own steps.
C8_ProducerNeverWaitsForConsumer ==
    /\ [](\A t \in Threads :
            Rank(pc[t]) > 0 =>
               \/ ENABLED ThreadStep(t)
               \/ /\ pc[t] = "lock"
                  /\ _lg36_init_lock \in Threads \ {t}
                  /\ ENABLED ThreadStep(_lg36_init_lock))
    /\ [][\A t \in Threads :
            (Rank(pc[t]) > 0 /\ pc'[t] # pc[t]) =>
               (pc'[t] \in {"idle", "raised"} \/ Rank(pc'[t]) > Rank(pc[t]))]_vars

\* a record was enqueued, and its call returned, after the consumer had ended
\* and behind an item nobody will take
C8_Witness ==
    /\ DssStopped
    /\ \E r \in after_stop : \E qk \in Queued(r) : qk[2] >= 2

\* an INSERT or the start of the sink service has raised
StoreFailed == \E i \in DOMAIN dss : dss[i].pc \in {"init_failed", "crashed"}

\* no more log calls: the budget of calls is used up and every call is over
ProducersStopped == clock = MaxCalls /\ \A t \in Threads : pc[t] \in {"idle", "raised"}

\* rows carrying the session id of the sink service, calls that passed the durable filter
SessionRows == {k \in DOMAIN db.rows : \E i \in DOMAIN dss : db.rows[k].session_id = dss[i]._session_id}
PassedDss == {r \in returned : _DSS_ENABLED /\ value(r.msg_lvl) >= value(Td)}

\* the consumer thread gets its turn
FairSpec == Spec /\ WF_vars(\E i \in DOMAIN dss : DssInit(i) \/ DssGet(i) \/ DssSave(i))

\* C9: with a fairly scheduled consumer and no store failure, every enqueued
\* record is eventually stored, and once the producers have stopped the rows
\* of the session come to number the calls that passed the durable filter,
\* for good.
C9_EventuallyStored ==
    /\ \A n \in 1..MaxCalls :
          (\E r \in put_ok : r.unix_time = n)
             ~> (StoreFailed \/ \E r \in put_ok : r.unix_time = n /\ Stored(r) # {})
    /\ [](ProducersStopped =>
             <>[](StoreFailed \/ Cardinality(SessionRows) = Cardinality(PassedDss)))

\* the producers have stopped, nothing failed, and two or more records that
\* passed the filter are stored while another call was filtered out
C9_Witness ==
    /\ ProducersStopped /\ ~StoreFailed
    /\ Cardinality(PassedDss) >= 2
    /\ Cardinality(SessionRows) = Cardinality(PassedDss)
    /\ returned \ PassedDss # {}

\* C10: the session id of the sink service never changes once it is set, and
\* every row carries it.
C10_OneSessionId ==
    /\ [](\A k \in DOMAIN db.rows : \A i \in DOMAIN dss : db.rows[k].session_id = dss[i]._session_id)
    /\ [][\A i \in DOMAIN dss :
            dss[i]._session_id # "" => dss'[i]._session_id = dss[i]._session_id]_vars

\* rows of records made by two different threads, under one session id
C10_Witness ==
    /\ Len(db.rows) >= 2
    /\ \E j, k \in DOMAIN db.rows : db.rows[j].tid # db.rows[k].tid
    /\ \A k \in DOMAIN db.rows : db.rows[k].session_id = dss[1]._session_id

\* C11: starting the logger against a store an earlier run left keeps what
\* is in it: no step of the run removes or alters a row of the earlier
\* session, and no step removes a view.
C11_StartKeepsStore ==
    [][/\ \A k \in DOMAIN db.rows :
             db.rows[k].session_id = OldSession =>
                 \E j \in DOMAIN db'.rows : db'.rows[j] = db.rows[k]
       /\ db.views \subseteq db'.views]_vars
\* str.lower() on the strings of LevelStrings
lower(str) ==
    CASE str \in {"DBUG", "Dbug"} -> "dbug"
      [] str = "DBG" -> "dbg"
      [] str \in {"DEBUG", "Debug"} -> "debug"
      [] str \in {"INFO", "Info"} -> "info"
      [] str \in {"WARN", "Warn", "wARN"} -> "warn"
      [] str \in {"WARNING", "Warning"} -> "warning"
      [] str = "ERRR" -> "errr"
      [] str \in {"ERR", "Err"} -> "err"
      [] str = "ERROR" -> "error"
      [] str \in {"CRIT", "Crit"} -> "crit"
      [] str = "TRACE" -> "trace"
      [] OTHER -> str

\* the aliases of the levels, in lower case, and the level each one names
Aliases == {"dbug", "dbg", "debug", "info", "warn", "warning", "errr", "err", "error", "crit"}

AliasLevel(a) ==
    CASE a \in {"dbug", "dbg", "debug"} -> "LGLVL.DBUG"
      [] a = "info" -> "LGLVL.INFO"
      [] a \in {"warn", "warning"} -> "LGLVL.WARN"
      [] a \in {"errr", "err", "error"} -> "LGLVL.ERRR"
      [] a = "crit" -> "LGLVL.CRIT"

\* C12: a level string that is no alias of a level in any spelling parses to
\* DBUG and prints exactly one diagnostic line, and the caller goes on: the
\* step that parses such a knob sets the threshold to DBUG and appends the
\* one line to stdout, and no thread is ended by an exception.
C12_UnknownLevelString ==
    [][\A t \in Threads :
          /\ (pc[t] = "set_stdout_filter" /\ pc'[t] # pc[t] /\ lower(_STDOUT_LVL_FILTER_STRING) \notin Aliases)
                => /\ _STDOUT_LVL_FILTER' = "LGLVL.DBUG"
                   /\ stdout' = Append(stdout, OperatorLine(InvalidLevelLine))
                   /\ pc'[t] = "set_dss_filter"
          /\ (pc[t] = "set_dss_filter" /\ pc'[t] # pc[t] /\ lower(_DSS_LVL_FILTER_STRING) \notin Aliases)
                => /\ _DSS_LVL_FILTER' = "LGLVL.DBUG"
                   /\ stdout' = Append(stdout, OperatorLine(InvalidLevelLine))
                   /\ pc'[t] = "mk_queue"]_vars

C12_Witness ==
    /\ _STDOUT_LVL_FILTER_STRING = "verbose" /\ _DSS_LVL_FILTER_STRING = ""
    /\ _STDOUT_LVL_FILTER = "LGLVL.DBUG" /\ _DSS_LVL_FILTER = "LGLVL.DBUG"
    /\ Len(stdout) = 2
    /\ _lg36_initialized

\* C13: every spelling of an alias, whatever its case, parses to the level
\* of the alias and prints no diagnostic: once a knob is parsed, the
\* threshold is the level its lower-cased string names, and with both knobs
\* naming a level nothing has been printed.
C13_CaseInsensitive ==
    /\ (_STDOUT_LVL_FILTER # None /\ lower(_STDOUT_LVL_FILTER_STRING) \in Aliases)
          => _STDOUT_LVL_FILTER = AliasLevel(lower(_STDOUT_LVL_FILTER_STRING))
    /\ (_DSS_LVL_FILTER # None /\ lower(_DSS_LVL_FILTER_STRING) \in Aliases)
          => _DSS_LVL_FILTER = AliasLevel(lower(_DSS_LVL_FILTER_STRING))
    /\ (lower(_STDOUT_LVL_FILTER_STRING) \in Aliases /\ lower(_DSS_LVL_FILTER_STRING) \in Aliases)
          => stdout = <<>>
\* C14: init_lg36 is idempotent: once _lg36_initialized is set, no step of a
\* call of init_lg36 changes the queue object or its pending records, a
\* threshold, the data sink service threads and their session id, the store
\* or what was printed.
C14_InitIdempotent ==
    [][\A t \in Threads :
          (_lg36_initialized /\ pc'[t] # pc[t] /\ (api[t] = "init_lg36" \/ api'[t] = "init_lg36"))
            => UNCHANGED <<_lg36_initialized, _dssq, queues, _STDOUT_LVL_FILTER, _DSS_LVL_FILTER,
                           dss, db, stdout>>]_vars

\* init_lg36 is about to return, after a log call initialized lazily and
\* returned, with a record pending in the queue and the consumer running
C14_Witness ==
    \E t \in Threads :
       /\ api[t] = "init_lg36" /\ pc[t] = "unlock"
       /\ returned # {}
       /\ _lg36_initialized /\ _dssq = 1 /\ Len(queues) = 1 /\ queues[1] # <<>>
       /\ Len(dss) = 1 /\ dss[1].pc = "get"
\* C15: filtering is monotone in the level: of two calls that returned, if
\* the one at the lower level was printed then so was the one at the higher
\* level, and if the lower one was enqueued then so was the higher one.
C15_FilterMonotone ==
    \A r1, r2 \in returned :
       value(r1.msg_lvl) < value(r2.msg_lvl) =>
          /\ (Lines(r1) # {} => Lines(r2) # {})
          /\ (r1 \in put_ok => r2 \in put_ok)

\* three calls at rising levels returned: the lowest held back by both
\* sinks, the other two printed and enqueued
C15_Witness ==
    \E r0, r1, r2 \in returned :
       /\ value(r0.msg_lvl) < value(r1.msg_lvl) /\ value(r1.msg_lvl) < value(r2.msg_lvl)
       /\ Lines(r0) = {} /\ r0 \notin put_ok
       /\ Lines(r1) # {} /\ r1 \in put_ok
       /\ Lines(r2) # {} /\ r2 \in put_ok
\* C16: a log call without a message goes through like any other: no log
\* call is ended by an exception, a returned warn(None) has printed its one
\* line, with the text None, and enqueued its record, and the row stored for
\* it holds a message value other than the one stored for warn("").
C16_AbsentMessage ==
    /\ \A t \in Threads : api[t] \in LogFns => pc[t] # "raised"
    /\ \A r \in returned :
          r.log_msg = PyNone =>
             /\ Cardinality(Lines(r)) = 1
             /\ \A k \in Lines(r) : stdout[k].msg = "None"
             /\ r \in put_ok
             /\ \A k \in Stored(r) : db.rows[k].log_msg = PyNone
             /\ \A e \in returned :
                   e.log_msg = PyStr("") =>
                      \A k \in Stored(r), j \in Stored(e) : db.rows[k].log_msg # db.rows[j].log_msg

\* warn(None) and warn("") have both returned and both rows are in the store
C16_Witness ==
    \E r, e \in returned :
       /\ r.log_msg = PyNone /\ e.log_msg = PyStr("")
       /\ Stored(r) # {} /\ Stored(e) # {}
       /\ Lines(r) # {} /\ Lines(e) # {}
\* C17: the store is append-only while the process runs: every step keeps
\* each row where it is and as it is, adds at most one row, and leaves the
\* mids strictly increasing in insertion order.
C17_AppendOnly ==
    [][/\ \A k \in DOMAIN db.rows : k \in DOMAIN db'.rows /\ db'.rows[k] = db.rows[k]
       /\ Len(db'.rows) <= Len(db.rows) + 1
       /\ \A j, k \in DOMAIN db'.rows : j < k => db'.rows[j].mid < db'.rows[k].mid]_vars

\* rows of two threads are in the store and the consumer is about to insert a third
C17_Witness ==
    /\ Len(db.rows) = 2
    /\ db.rows[1].tid # db.rows[2].tid
    /\ \E i \in DOMAIN dss : dss[i].pc = "proc" /\ dss[i].next_req # Unbound
\* the positions of a data sink service thread that is running
Running == {"new", "get", "proc"}

\* C18: the consumer never keeps the process from exiting, and ends with it:
\* whenever the application threads are done the process can exit, whatever
\* the data sink service thread is doing and whatever is still queued; and
\* a running data sink service thread stops running only in the step in
\* which the process exits, or in a step in which the store failed it and
\* no row was written.
C18_ConsumerNeverBlocksExit ==
    /\ [](AppDone => ENABLED ProcessExit)
    /\ [][\A i \in DOMAIN dss :
             (dss[i].pc \in Running /\ dss'[i].pc \notin Running) =>
                \/ dss'[i].pc = "killed" /\ \A t \in Threads : pc'[t] = "exited"
                \/ dss'[i].pc \in {"init_failed", "crashed"} /\ db'.rows = db.rows]_vars

\* the application is done while the consumer is in the middle of a store
\* write with another record still queued, and the process can exit
C18_Witness ==
    /\ AppDone
    /\ \E i \in DOMAIN dss : dss[i].pc = "proc" /\ dss[i].next_req # Unbound /\ dss[i].daemon
    /\ _dssq = 1 /\ queues[1] # <<>>
    /\ ENABLED ProcessExit
\* C19: dump_lg36 returns without raising and holds nothing afterwards: no
\* call of dump_lg36 is ended by an exception, and a thread that is out of
\* dump_lg36 has neither the descriptor nor the read connection open.
C19_DumpReleases ==
    \A t \in Threads :
       /\ api[t] = "dump_lg36" => pc[t] # "raised"
       /\ pc[t] \in {"idle", "raised"} => (db_fd_ro[t] # "open" /\ db_conn[t] # "open")

\* C20: sink startup is idempotent: on every store the process can find,
\* the statements of DATA_SINK_SERVICE.__init__ raise nothing and keep the
\* rows, running them a second time changes nothing, and on a store that
\* has the table and the views they change nothing at all; the step of the
\* data sink service thread that runs them leaves such a store as it is.
C20_StartupIdempotent ==
    /\ [](LET s == DATA_SINK_SERVICE(db) IN
             /\ ~s.err
             /\ s.db.rows = db.rows /\ s.db.seq = db.seq /\ db.views \subseteq s.db.views
             /\ DATA_SINK_SERVICE(s.db) = s
             /\ (db.table /\ _DEEP_VIEWS \subseteq db.views) => s.db = db)
    /\ [][\A i \in DOMAIN dss :
             (dss[i].pc = "new" /\ dss'[i].pc = "get" /\ db.table /\ _DEEP_VIEWS \subseteq db.views)
                => db' = db]_vars

\* the consumer of this run has started on the store of an earlier run,
\* which still holds the table, the views and that run's rows
C20_Witness ==
    /\ Len(dss) = 1 /\ dss[1].pc = "get"
    /\ db.table /\ db.views = _DEEP_VIEWS
    /\ db.rows # <<>>
    /\ \A k \in DOMAIN db.rows : db.rows[k].session_id = OldSession
\* C21: the consumer goes from INIT to RUNNING and never back.  A data sink
\* service thread in its loop has the store file, the table and the views;
\* no thread returns to "new"; an item leaves a queue only in a step of a
\* thread that is in its loop, and it is the oldest item; so what producers
\* enqueue while the thread is in "new" stays queued, in order.
C21_InitThenRunning ==
    /\ [](\A i \in DOMAIN dss :
             dss[i].pc \in {"get", "proc"} => (db.file /\ db.table /\ _DEEP_VIEWS \subseteq db.views))
    /\ [][/\ \A i \in DOMAIN dss : dss[i].pc # "new" => dss'[i].pc # "new"
          /\ \A q \in DOMAIN queues :
                queues'[q] # queues[q] =>
                   \/ \E r \in put_ok' \ put_ok : queues'[q] = Append(queues[q], r)
                   \/ /\ queues[q] # <<>> /\ queues'[q] = Tail(queues[q])
                      /\ \E i \in DOMAIN dss :
                            /\ dss[i].pc = "get" /\ dss'[i].pc = "proc"
                            /\ dss'[i].next_req = Head(queues[q])]_vars

\* two records were enqueued while the consumer was still in "new"; it is
\* now in its loop, holds the older one, and the younger one is queued
C21_Witness ==
    /\ Len(dss) = 1 /\ dss[1].pc = "proc"
    /\ db.rows = <<>>
    /\ Cardinality(put_ok) = 2
    /\ Len(queues[1]) = 1
    /\ dss[1].next_req \in put_ok
    /\ dss[1].next_req.unix_time < queues[1][1].unix_time
    /\ clock = 2
\* C22: process_req gets only the item its own iteration dequeued: a data
\* sink service thread leaves the get of line 437 for process_req only in a
\* step that takes the oldest item off the queue and binds next_req to it;
\* and a step that leaves the get without taking an item writes no row then
\* or in the process_req that follows.
C22_ProcessOnlyDequeued ==
    [][\A i \in DOMAIN dss :
          /\ (dss[i].pc = "get" /\ dss'[i].pc = "proc") =>
                 /\ _dssq # 0 /\ queues[_dssq] # <<>>
                 /\ queues'[_dssq] = Tail(queues[_dssq])
                 /\ dss'[i].next_req = Head(queues[_dssq])
          /\ (dss[i].pc = "proc" /\ dss'[i].pc # "proc" /\ Len(db'.rows) > Len(db.rows)) =>
                 \A k \in DOMAIN db.rows : ~RowOf(dss[i].next_req, db.rows[k])]_vars
\* C23: the flag is set last: whenever _lg36_initialized is true, and
\* whenever a thread is past the init check of _process_lgr, both
\* thresholds and _dssq are set; so no log call is ended by reading an
\* unset threshold, no put finds _dssq unset, and every returned call whose
\* level passes the durable filter has enqueued its record.
C23_InitializedMeansSet ==
    /\ (_lg36_initialized \/ \E t \in Threads : pc[t] \in {"stdout", "dss"})
          => (_STDOUT_LVL_FILTER # None /\ _DSS_LVL_FILTER # None /\ _dssq # 0)
    /\ \A t \in Threads : pc[t] # "raised"
    /\ \A k \in DOMAIN stdout : stdout[k].msg # PutErrorLine
    /\ \A r \in returned : PassesDss(r) => r \in put_ok

\* one log call is at its dss sink while the thread that ran the init for
\* its own log call still holds the lock, and an earlier call has returned
\* with its record enqueued
C23_Witness ==
    \E t, u \in Threads :
       /\ t # u
       /\ pc[t] = "unlock" /\ _lg36_init_lock = t /\ api[t] \in LogFns
       /\ pc[u] = "dss" /\ api[u] \in LogFns
       /\ _lg36_initialized
\* C24: when DATA_SINK_SERVICE() raises, the consumer thread is gone for
\* good and nothing replaces it: it is the only data sink service thread
\* ever started, the flag is set or the initializing thread is about to set
\* it, no log call is ended by an exception, and every record enqueued is
\* still in the queue while the store has no row.
C24_InitFailure ==
    /\ [](\A i \in DOMAIN dss :
             dss[i].pc = "init_failed" =>
                /\ Len(dss) = 1 /\ Len(queues) = 1
                /\ (_lg36_initialized \/ \E t \in Threads : pc[t] = "set_flag")
                /\ \A t \in Threads : pc[t] # "raised"
                /\ db.rows = <<>>
                /\ \A r \in put_ok : Cardinality(Queued(r)) = 1)
    /\ [][\A i \in DOMAIN dss : dss[i].pc = "init_failed" => dss'[i].pc = "init_failed"]_vars

\* the consumer ended in __init__, and calls made after that have returned
\* with their records in the queue
C24_Witness ==
    /\ Len(dss) = 1 /\ dss[1].pc = "init_failed"
    /\ _lg36_initialized
    /\ Cardinality(after_stop) >= 2
    /\ Len(queues[1]) >= 2
====
